---- MODULE Spec2Model ----
(***************************************************************************)
(* Model of the transcription page component, src/src/pages/Index.tsx.     *)
(*                                                                         *)
(* The component keeps two pieces of React state (isListening, transcript),*)
(* one ref (recognitionRef) and talks to the browser's SpeechRecognition   *)
(* object.  React state has two faces in the model: the value held by the  *)
(* state hook (isListening, transcript) and the value captured by the      *)
(* closures of the last render (renderedIsListening, renderedTranscript).  *)
(* A handler or callback only queues its state update and returns; React   *)
(* renders afterwards (Render), so a handler called before that render     *)
(* still runs the closure of the previous one.                             *)
(* The onend callback is created once, by the mount effect, so it keeps    *)
(* the isListening of the first render (onendIsListening).                 *)
(***************************************************************************)
EXTENDS Integers, Sequences, FiniteSets, TLC

\* ---------------------------------------------------------------- bounds
MaxLen  == 3      \* longest transcript explored, in characters
MaxSegs == 2      \* longest event.results list explored
MaxLog  == 3      \* longest recorded run of delivered segments

FinalTexts == {<<"a">>, <<"b", "a">>}
InterimTexts == {<<"b">>}
Codes == {"no-speech", "network"}

Segment ==
  [transcript : FinalTexts, isFinal : {TRUE}] \cup
  [transcript : InterimTexts, isFinal : {FALSE}]

RECURSIVE SeqsUpTo(_, _)
SeqsUpTo(S, n) ==
  IF n = 0 THEN {<< >>}
  ELSE LET shorter == SeqsUpTo(S, n - 1)
       IN shorter \cup {Append(s, x) : s \in {t \in shorter : Len(t) = n - 1}, x \in S}

\* One result already reported by earlier events of the recognition run.
Earlier == [transcript |-> <<"a">>, isFinal |-> TRUE]

\* A "result" event: the results list of the run so far and the index of the
\* first result this event reports.  The results before resultIndex are ones
\* earlier events reported; those from resultIndex on are the event's own.
Events ==
  {ev \in {[results |-> [k \in 1..i |-> Earlier] \o own, resultIndex |-> i] :
              i \in 0..(MaxSegs - 1),
              own \in {s \in SeqsUpTo(Segment, MaxSegs) : Len(s) >= 1}} :
     Len(ev.results) <= MaxSegs}

VARIABLES
  phase,                \* "created" | "mounted" | "unmounted"
  supported,            \* window has (webkit)SpeechRecognition
  recognitionRef,       \* "null" | "instance"
  isListening,          \* state hook value
  transcript,           \* state hook value, a sequence of characters
  renderedIsListening,  \* isListening as captured by the last render
  renderedTranscript,   \* transcript as captured by the last render
  onendIsListening,     \* isListening as captured by the onend closure
  capState,             \* recognizer: "idle" | "running" | "stopping" | "errored"
  lastCall,             \* recognizer call made by the last step
  toast,                \* the last toast shown
  unsupportedToasts,    \* number of "not supported" toasts shown
  instances,            \* number of SpeechRecognition objects constructed
  clipboardWrites,      \* texts the last step wrote to the clipboard
  downloads,            \* files the last step offered for saving
  lastOp,               \* history: the last handler run
  repeated,             \* history: the handler run before it was the same one
  errorInListening,     \* history: isListening when the last error arrived
  errorLatched,         \* history: an error arrived and no start toggle since
  base,                 \* history: transcript at the start of the current run of results
  received,             \* history: segments delivered in the current run of results
  runListening,         \* history: isListening during the current run of results
  toggleSnap,           \* history: transcript before the current streak of toggles
  toggleFrom,           \* history: isListening before the current pair of toggles
  toggles               \* history: toggles of the current pair made so far (0..2)

vars == <<phase, supported, recognitionRef, isListening, transcript,
          renderedIsListening, renderedTranscript, onendIsListening, capState,
          lastCall, toast, unsupportedToasts, instances, clipboardWrites,
          downloads, lastOp, repeated, errorInListening,
          errorLatched, base, received, runListening, toggleSnap, toggleFrom,
          toggles>>

NoToast == << >>
UnsupportedToast == <<"Speech Recognition Not Supported">>

CopiedToast == <<"Copied", "Transcript copied to clipboard">>

ErrorToastGeneric(code) == <<"Error", "Speech recognition error">>

ErrorToast(code) == <<"Error", "Speech recognition error: ", code>>

\* ------------------------------------------------ the recognizer's calls
\* start(): begins a recognition run; on a recognizer that has not ended its
\* previous run the call fails and the recognizer is left as it is.
CapStart(s) == IF s = "idle" THEN "running" ELSE s

\* stop(): a running recognizer winds down and will deliver "end".
CapStop(s) == IF s = "running" THEN "stopping" ELSE s

ApplyCall(call, s) ==
  CASE call = "start" -> CapStart(s)
    [] call = "stop"  -> CapStop(s)
    [] OTHER          -> s

\* ------------------------------------------------------ onresult's loop
\* for (i = event.resultIndex; i < event.results.length; i++) ...
\* Indices are 0-based as in the source; results[i] is results[i + 1] here.
RECURSIVE FinalLoopAll(_, _, _)
FinalLoopAll(results, i, finalTranscript) ==
  IF i < Len(results)
  THEN FinalLoopAll(results, i + 1, finalTranscript \o results[i + 1].transcript)
  ELSE finalTranscript

RECURSIVE FinalLoop(_, _, _)
FinalLoop(results, i, finalTranscript) ==
  IF i < Len(results)
  THEN FinalLoop(results, i + 1,
                 IF results[i + 1].isFinal
                 THEN finalTranscript \o results[i + 1].transcript
                 ELSE finalTranscript)
  ELSE finalTranscript

\* setTranscript(prev => prev + finalTranscript)
AppendFinalPrepend(prev, finalTranscript) == finalTranscript \o prev

AppendFinalReplace(prev, finalTranscript) ==
  IF finalTranscript = << >> THEN prev ELSE finalTranscript

AppendFinal(prev, finalTranscript) == prev \o finalTranscript

\* setTranscript("")
ClearTextDropHead(prev) == IF Len(prev) > 1 THEN Tail(prev) ELSE << >>

ClearText(prev) == << >>

\* !isListening, with isListening the value the handler's closure holds
ToggleValue(captured) == ~captured

\* onend's test: if (isListening), with the isListening captured at mount
OnEndRestartsAlways(captured) == TRUE

OnEndRestarts(captured) == captured

\* The second effect's body, run when its dependency isListening changed.
ListeningEffectCall(listening, ref) ==
  IF listening /\ ref # "null" THEN "start"
  ELSE IF ~listening /\ ref # "null" THEN "stop"
  ELSE "none"

\* A state setter called by a callback: React applies the update while the
\* component is mounted and drops it once the component is unmounted.
SetState(ph, current, next) == IF ph = "mounted" THEN next ELSE current

\* handleCopyText: if (transcript) navigator.clipboard.writeText(transcript)
CopyWrites(text) == IF text # << >> THEN <<text>> ELSE << >>

\* handleCopyText's toast, shown after the write
CopyToast(text, shown) == IF text # << >> THEN CopiedToast ELSE shown

\* handleDownloadText: if (transcript) a Blob of type text/plain is offered
DownloadFiles(text) ==
  IF text # << >> THEN <<[content |-> text, type |-> "text/plain"]>> ELSE << >>

\* The cleanup of the initialization effect: if (recognitionRef.current) stop()
CleanupCallNone(ref) == "none"

CleanupCall(ref) == IF ref # "null" THEN "stop" ELSE "none"

\* The segments a result event delivers: results[resultIndex..].
Delivered(ev) ==
  IF ev.resultIndex < Len(ev.results)
  THEN SubSeq(ev.results, ev.resultIndex + 1, Len(ev.results))
  ELSE << >>

\* ------------------------------------------------------------- history
Pending == isListening # renderedIsListening \/ transcript # renderedTranscript

\* op names the handler run.  A streak of toggles is a run of toggle calls
\* with nothing but renders between them; its toggles are counted in pairs.
Note(op) ==
  /\ lastOp' = op
  /\ repeated' = (lastOp = op)
  /\ errorInListening' = IF op = "error" THEN isListening ELSE errorInListening
  /\ toggles' = IF op = "toggle" THEN (IF toggles = 1 THEN 2 ELSE 1)
                ELSE IF op = "render" THEN toggles
                ELSE 0
  /\ toggleSnap' = IF op \in {"toggle", "render"} /\ toggles > 0 THEN toggleSnap
                   ELSE IF op = "toggle" THEN transcript
                   ELSE transcript'
  /\ toggleFrom' = IF op = "toggle" /\ toggles = 1 THEN toggleFrom
                   ELSE IF op = "toggle" THEN isListening
                   ELSE IF op = "render" /\ toggles > 0 THEN toggleFrom
                   ELSE isListening'

\* A step that writes nothing to the clipboard and offers no file.
NoOutput ==
  /\ clipboardWrites' = << >>
  /\ downloads' = << >>

\* React renders the queued state and runs the effect on [isListening] when
\* that dependency differs from the one of the previous render.
Commit ==
  /\ renderedIsListening' = isListening'
  /\ renderedTranscript' = transcript'
  /\ lastCall' = IF isListening' # renderedIsListening
                 THEN ListeningEffectCall(isListening', recognitionRef)
                 ELSE "none"
  /\ capState' = ApplyCall(lastCall', capState)

\* ------------------------------------------------------------- actions
Init ==
  /\ phase = "created"
  /\ supported \in BOOLEAN
  /\ recognitionRef = "null"
  /\ isListening = FALSE
  /\ transcript = << >>
  /\ renderedIsListening = FALSE
  /\ renderedTranscript = << >>
  /\ onendIsListening = FALSE
  /\ capState = "idle"
  /\ lastCall = "none"
  /\ toast = NoToast
  /\ unsupportedToasts = 0
  /\ instances = 0
  /\ clipboardWrites = << >>
  /\ downloads = << >>
  /\ lastOp = "init"
  /\ repeated = FALSE
  /\ errorInListening = FALSE
  /\ errorLatched = FALSE
  /\ base = << >>
  /\ received = << >>
  /\ runListening = FALSE
  /\ toggleSnap = << >>
  /\ toggleFrom = FALSE
  /\ toggles = 0

\* The two effects of the first render: the initialization effect, then the
\* effect on [isListening].
Mount ==
  /\ phase = "created"
  /\ phase' = "mounted"
  /\ IF ~supported
     THEN /\ toast' = UnsupportedToast
          /\ unsupportedToasts' = unsupportedToasts + 1
          /\ recognitionRef' = "null"
          /\ instances' = instances
          /\ onendIsListening' = onendIsListening
     ELSE /\ recognitionRef' = "instance"
          /\ instances' = instances + 1
          /\ onendIsListening' = renderedIsListening
          /\ UNCHANGED <<toast, unsupportedToasts>>
  /\ lastCall' = ListeningEffectCall(renderedIsListening, recognitionRef')
  /\ capState' = ApplyCall(lastCall', capState)
  /\ UNCHANGED <<supported, isListening, transcript, renderedIsListening,
                 renderedTranscript, errorLatched, base, received, runListening>>
  /\ NoOutput
  /\ Note("mount")

handleToggleListeningRecreates ==
  /\ phase = "mounted"
  /\ isListening' = ToggleValue(renderedIsListening)
  /\ transcript' = transcript
  /\ lastCall' = "none"
  /\ errorLatched' = IF isListening' THEN FALSE ELSE errorLatched
  /\ UNCHANGED <<phase, supported, recognitionRef, renderedIsListening,
                 renderedTranscript, onendIsListening, capState, toast,
                 unsupportedToasts, base, received, runListening>>
  /\ instances' = IF isListening' /\ recognitionRef # "null"
                  THEN instances + 1 ELSE instances
  /\ NoOutput
  /\ Note("toggle")

handleToggleListeningResets ==
  /\ phase = "mounted"
  /\ isListening' = ToggleValue(renderedIsListening)
  /\ transcript' = IF isListening' THEN << >> ELSE transcript
  /\ lastCall' = "none"
  /\ errorLatched' = IF isListening' THEN FALSE ELSE errorLatched
  /\ UNCHANGED <<phase, supported, recognitionRef, renderedIsListening,
                 renderedTranscript, onendIsListening, capState, toast,
                 unsupportedToasts, base, received, runListening>>
  /\ instances' = instances
  /\ NoOutput
  /\ Note("toggle")

\* setIsListening(!isListening), isListening being the closure's value
handleToggleListening ==
  /\ phase = "mounted"
  /\ isListening' = ToggleValue(renderedIsListening)
  /\ transcript' = transcript
  /\ lastCall' = "none"
  /\ errorLatched' = IF isListening' THEN FALSE ELSE errorLatched
  /\ UNCHANGED <<phase, supported, recognitionRef, renderedIsListening,
                 renderedTranscript, onendIsListening, capState, toast,
                 unsupportedToasts, base, received, runListening>>
  /\ instances' = instances
  /\ NoOutput
  /\ Note("toggle")

handleClearText ==
  /\ phase = "mounted"
  /\ transcript' = ClearText(transcript)
  /\ isListening' = isListening
  /\ lastCall' = "none"
  /\ base' = << >>
  /\ received' = << >>
  /\ runListening' = isListening
  /\ UNCHANGED <<phase, supported, recognitionRef, renderedIsListening,
                 renderedTranscript, onendIsListening, capState, toast,
                 unsupportedToasts, errorLatched>>
  /\ instances' = instances
  /\ NoOutput
  /\ Note("clear")

\* The callbacks stay assigned to the recognizer after the cleanup (which only
\* calls stop()), so they also run once the component is unmounted.
onresult(event) ==
  /\ phase \in {"mounted", "unmounted"}
  /\ recognitionRef = "instance"
  /\ capState \in {"running", "stopping"}
  /\ transcript' = SetState(phase, transcript,
                     AppendFinal(transcript,
                                 FinalLoop(event.results, event.resultIndex, << >>)))
  /\ Len(transcript') <= MaxLen
  /\ lastCall' = "none"
  /\ IF phase # "mounted"
     THEN UNCHANGED <<received, base, runListening>>
     ELSE /\ IF isListening /\ runListening
                /\ Len(received) + Len(Delivered(event)) <= MaxLog
             THEN /\ received' = received \o Delivered(event)
                  /\ base' = base
             ELSE /\ received' = Delivered(event)
                  /\ base' = transcript
          /\ runListening' = isListening
  /\ UNCHANGED <<phase, supported, recognitionRef, isListening,
                 renderedIsListening, renderedTranscript, onendIsListening,
                 capState, toast, unsupportedToasts, errorLatched>>
  /\ instances' = instances
  /\ NoOutput
  /\ Note("result")

onerror(code) ==
  /\ phase \in {"mounted", "unmounted"}
  /\ recognitionRef = "instance"
  /\ capState \in {"running", "stopping"}
  /\ capState' = "errored"
  /\ toast' = ErrorToast(code)
  /\ isListening' = SetState(phase, isListening, FALSE)
  /\ lastCall' = "none"
  /\ errorLatched' = TRUE
  /\ UNCHANGED <<phase, supported, recognitionRef, transcript,
                 renderedIsListening, renderedTranscript, onendIsListening,
                 unsupportedToasts, base, received, runListening>>
  /\ instances' = instances
  /\ NoOutput
  /\ Note("error")

onend ==
  /\ phase \in {"mounted", "unmounted"}
  /\ recognitionRef = "instance"
  /\ capState \in {"running", "stopping", "errored"}
  /\ lastCall' = IF OnEndRestarts(onendIsListening) THEN "start" ELSE "none"
  /\ capState' = ApplyCall(lastCall', "idle")
  /\ UNCHANGED <<phase, supported, recognitionRef, isListening, transcript,
                 renderedIsListening, renderedTranscript, onendIsListening,
                 toast, unsupportedToasts, errorLatched, base, received, runListening>>
  /\ instances' = instances
  /\ NoOutput
  /\ Note("end")

handleCopyText ==
  /\ phase = "mounted"
  /\ clipboardWrites' = CopyWrites(renderedTranscript)
  /\ toast' = CopyToast(renderedTranscript, toast)
  /\ downloads' = << >>
  /\ lastCall' = "none"
  /\ UNCHANGED <<phase, supported, recognitionRef, isListening, transcript,
                 renderedIsListening, renderedTranscript, onendIsListening,
                 capState, unsupportedToasts, instances, errorLatched, base,
                 received, runListening>>
  /\ Note("copy")

handleDownloadText ==
  /\ phase = "mounted"
  /\ downloads' = DownloadFiles(renderedTranscript)
  /\ clipboardWrites' = << >>
  /\ lastCall' = "none"
  /\ UNCHANGED <<phase, supported, recognitionRef, isListening, transcript,
                 renderedIsListening, renderedTranscript, onendIsListening,
                 capState, toast, unsupportedToasts, instances, errorLatched,
                 base, received, runListening>>
  /\ Note("download")

\* The render scheduled by the state updates queued since the last one.
Render ==
  /\ phase = "mounted"
  /\ Pending
  /\ isListening' = isListening
  /\ transcript' = transcript
  /\ Commit
  /\ UNCHANGED <<phase, supported, recognitionRef, onendIsListening, toast,
                 unsupportedToasts, errorLatched, base, received, runListening>>
  /\ instances' = instances
  /\ NoOutput
  /\ Note("render")

\* The cleanup of the initialization effect.
Unmount ==
  /\ phase = "mounted"
  /\ phase' = "unmounted"
  /\ lastCall' = CleanupCall(recognitionRef)
  /\ capState' = ApplyCall(lastCall', capState)
  /\ UNCHANGED <<supported, recognitionRef, isListening, transcript,
                 renderedIsListening, renderedTranscript, onendIsListening,
                 toast, unsupportedToasts, errorLatched, base, received, runListening>>
  /\ instances' = instances
  /\ NoOutput
  /\ Note("unmount")

Next ==
  \/ Mount
  \/ handleToggleListening
  \/ handleClearText
  \/ handleCopyText
  \/ handleDownloadText
  \/ \E event \in Events : onresult(event)
  \/ \E code \in Codes : onerror(code)
  \/ onend
  \/ Render
  \/ Unmount

Spec == Init /\ [][Next]_vars

TypeOK ==
  /\ phase \in {"created", "mounted", "unmounted"}
  /\ recognitionRef \in {"null", "instance"}
  /\ isListening \in BOOLEAN
  /\ capState \in {"idle", "running", "stopping", "errored"}
  /\ lastCall \in {"none", "start", "stop"}
  /\ Len(transcript) <= MaxLen

\* ---------------------------------------------------------- properties
RECURSIVE Flatten(_)
Flatten(ss) == IF ss = << >> THEN << >> ELSE Head(ss) \o Flatten(Tail(ss))

IsFinalSegment(seg) == seg.isFinal

\* The text of the segments marked final, in the order given.
FinalText(segs) ==
  LET finals == SelectSeq(segs, IsFinalSegment)
  IN Flatten([i \in DOMAIN finals |-> finals[i].transcript])

IsPrefix(s, t) == Len(s) <= Len(t) /\ SubSeq(t, 1, Len(s)) = s

Fin(text) == [transcript |-> text, isFinal |-> TRUE]
Interim(text) == [transcript |-> text, isFinal |-> FALSE]

\* C1: after any run of "result" notifications received while Listening, with
\* no Clear in between, the transcript is the transcript before the run
\* followed by the texts of exactly the segments marked final, in arrival
\* order and in delivered order within a notification.
C1_FinalOnlyInOrder ==
  runListening => transcript = base \o FinalText(received)

\* final "a", interim "b", then in a second notification final "ba";
\* the transcript is "aba" (the shape of "Hello " / "wor" / "world.").
C1_Witness ==
  /\ runListening
  /\ lastOp = "result" /\ repeated
  /\ base = << >>
  /\ received = <<Fin(<<"a">>), Interim(<<"b">>), Fin(<<"b", "a">>)>>
  /\ transcript = <<"a", "b", "a">>

\* C2: an ended() notification that arrives while Listening, the recognizer
\* running (no stop requested), is followed by start() and the state stays
\* Listening.
C2_AutoRestart ==
  [][(onend /\ phase = "mounted" /\ isListening /\ capState = "running")
       => (lastCall' = "start" /\ capState' = "running" /\ isListening')]_vars

\* C3: an error(code) notification shows an error toast whose text contains
\* the code and, whatever session state (Listening or Idle) the component is
\* in, leaves the state Idle.  (Once the component is unmounted it has no
\* session state left to change: the toast is still shown.)
C3_ErrorToIdle ==
  [][\A code \in Codes :
       onerror(code) =>
         /\ (phase = "mounted" => isListening' = FALSE)
         /\ toast'[1] = "Error"
         /\ \E i \in DOMAIN toast' : toast'[i] = code]_vars

\* An error that arrived in the Idle state, after the user's stop.
C3_Witness ==
  /\ phase = "mounted"
  /\ lastOp = "error"
  /\ ~errorInListening
  /\ ~isListening
  /\ toast = <<"Error", "Speech recognition error: ", "network">>

\* C4: with the capability unsupported, after any number of toggles the state
\* is Idle, start() was not invoked and the "not supported" toast was shown
\* exactly once.
C4_UnsupportedToggleNoEffect ==
  (phase = "mounted" /\ ~supported) =>
     /\ ~isListening
     /\ lastCall # "start"
     /\ unsupportedToasts = 1

\* C5: with the capability available, a toggle called in the Idle state makes
\* the state Listening and the render that follows invokes start(); called in
\* the Listening state it makes the state Idle and the render that follows
\* invokes stop().
C5_ToggleDrivesCapability ==
  [][/\ (lastOp' = "toggle" /\ recognitionRef = "instance")
          => isListening' = ~isListening
     /\ (lastOp' = "render" /\ lastOp = "toggle" /\ recognitionRef = "instance")
          => /\ isListening' = isListening
             /\ (isListening => lastCall' = "start")
             /\ (~isListening => lastCall' = "stop")]_vars

\* C6: a "result" notification delivered after the user's stop, the state
\* already Idle, appends its final segments in order and drops the others:
\* after it the transcript is the one before it (base) followed by the final
\* texts of the segments it delivered (received).
C6_LateResultAppended ==
  (phase = "mounted" /\ lastOp = "result" /\ ~runListening) =>
     transcript = base \o FinalText(received)

\* After the stop toggle the recognizer, still stopping, delivered interim
\* "b" and final "ba" on a transcript "a".
C6_Witness ==
  /\ phase = "mounted"
  /\ lastOp = "result"
  /\ ~runListening
  /\ ~isListening
  /\ capState = "stopping"
  /\ received = <<Interim(<<"b">>), Fin(<<"b", "a">>)>>
  /\ base = <<"a">>
  /\ transcript = <<"a", "b", "a">>

\* C7: after an error, start() is not invoked, not even by a following
\* ended(), until a toggle that starts listening (errorLatched: an error has
\* arrived and no toggle has set the state Listening since).
C7_NoRetryAfterError ==
  [][errorLatched => lastCall' # "start"]_vars

\* An error, then the recognizer's ended(): nothing was started.
C7_Witness ==
  /\ lastOp = "end"
  /\ toast = <<"Error", "Speech recognition error: ", "no-speech">>
  /\ errorLatched
  /\ lastCall = "none"
  /\ capState = "idle"

\* C8: every step but Clear leaves the old transcript a prefix of the new
\* one, and only the result handler and Clear change the transcript.
C8_AppendOnly ==
  [][/\ (lastOp' # "clear" => IsPrefix(transcript, transcript'))
     /\ (transcript' # transcript => lastOp' \in {"clear", "result"})
     /\ (lastOp' = "clear" => transcript' = << >>)
     /\ (lastOp' = "result" =>
           \E text \in SeqsUpTo(FinalTexts, MaxSegs) :
              transcript' = transcript \o Flatten(text))]_vars

C8_Witness ==
  /\ lastOp = "result" /\ repeated
  /\ isListening
  /\ base # << >>
  /\ Len(transcript) > Len(base)

\* C9: Clear empties the transcript in either state, whatever it held, and
\* leaves the state alone; a second Clear right after changes nothing.
C9_ClearResetsIdempotent ==
  [][handleClearText =>
       /\ transcript' = << >>
       /\ isListening' = isListening
       /\ (lastOp = "clear" =>
             UNCHANGED <<phase, supported, recognitionRef, isListening,
                         transcript, renderedIsListening, renderedTranscript,
                         onendIsListening, capState, toast,
                         unsupportedToasts>>)]_vars

C9_Witness ==
  /\ lastOp = "clear" /\ repeated
  /\ transcript = << >>
  /\ isListening

\* C10: toggles never change the transcript: after any streak of toggles
\* (and the renders they schedule) it is what it was before the first.
C10_ToggleKeepsTranscript ==
  toggles > 0 => transcript = toggleSnap

\* Started and at once stopped, on a transcript that was not empty.
C10_Witness ==
  /\ toggles = 2
  /\ lastOp = "render"
  /\ ~toggleFrom
  /\ ~isListening
  /\ lastCall = "stop"
  /\ capState = "stopping"
  /\ transcript # << >>
  /\ transcript = toggleSnap

\* C11: at most one recognizer object exists: it is constructed once, by the
\* initialization effect, and no toggle, error or ended notification
\* constructs another or replaces the one recognitionRef holds.
C11_SingleInstance ==
  /\ instances <= 1
  /\ (phase = "created" => instances = 0)
  /\ (recognitionRef = "instance" <=> instances = 1)
  /\ (phase # "created" => (instances = 1 <=> supported))

\* An error, a new start by toggle and an ended notification have all
\* happened on the one instance.
C11_Witness ==
  /\ instances = 1
  /\ recognitionRef = "instance"
  /\ lastOp = "end"
  /\ toast = <<"Error", "Speech recognition error: ", "network">>
  /\ isListening

\* C12: tearing the component down while a recognizer exists invokes stop(),
\* whatever the session state, so the recognizer is no longer running, and
\* nothing starts it again afterwards.
C12_TeardownStops ==
  [][/\ (phase = "mounted" /\ phase' = "unmounted" /\ recognitionRef = "instance")
          => (lastCall' = "stop" /\ capState' # "running")
     /\ phase = "unmounted"
          => (lastCall' # "start" /\ capState' # "running")]_vars

\* Torn down while Listening; the recognizer has since delivered ended() and
\* was not started again.
C12_Witness ==
  /\ phase = "unmounted"
  /\ recognitionRef = "instance"
  /\ isListening
  /\ lastOp = "end"
  /\ lastCall = "none"
  /\ capState = "idle"

\* C13: copying is a no-op on an empty transcript (nothing written, no
\* "Copied" toast); otherwise exactly the whole transcript, as it is when the
\* handler is called, is written once to the clipboard; either way the
\* transcript and the session state are left as they were.
C13_CopyWritesTranscript ==
  [][lastOp' = "copy" =>
       /\ transcript = << >> =>
             (clipboardWrites' = << >> /\ toast' = toast)
       /\ transcript # << >> =>
             (clipboardWrites' = <<transcript>> /\ toast' = CopiedToast)
       /\ UNCHANGED <<transcript, isListening, capState>>]_vars

\* C14: downloading is a no-op on an empty transcript (no file offered);
\* otherwise exactly one text/plain file is offered whose content is the
\* whole transcript, as it is when the handler is called; either way the
\* transcript and the session state are left as they were.
C14_DownloadOffersTranscript ==
  [][lastOp' = "download" =>
       /\ transcript = << >> => downloads' = << >>
       /\ transcript # << >> =>
             downloads' = <<[content |-> transcript, type |-> "text/plain"]>>
       /\ UNCHANGED <<transcript, isListening, capState, toast>>]_vars

\* C15: once the user has requested stop (state Idle, stop() issued or about
\* to be, by the pending render), the
\* ended() notification that follows does not invoke start() and leaves the
\* state Idle; the state becomes Listening again only by a toggle.
C15_StopBeatsEnded ==
  [][/\ (lastOp' = "end" /\ phase = "mounted" /\ ~isListening
            /\ capState \in {"running", "stopping"})
          => (lastCall' # "start" /\ capState' = "idle" /\ ~isListening')
     /\ (~isListening /\ isListening') => lastOp' = "toggle"]_vars

\* Started, stopped by the user, then ended(): no error was ever shown, the
\* recognizer is idle and the state Idle.
C15_Witness ==
  /\ phase = "mounted"
  /\ lastOp = "end"
  /\ instances = 1
  /\ toast = NoToast
  /\ ~isListening
  /\ ~renderedIsListening
  /\ lastCall = "none"
  /\ capState = "idle"

\* C16: whenever a recognizer exists, no render is pending and the recognizer
\* owes no ended() notification, the state is Listening exactly when the
\* recognizer is running.
C16_FlagAgreesWithCapability ==
  (/\ phase = "mounted"
   /\ recognitionRef = "instance"
   /\ ~Pending
   /\ capState \in {"idle", "running"})
     => (isListening <=> capState = "running")

\* C17: start() is never invoked on a recognizer that is running or that is
\* still stopping (stop() issued, ended() not yet delivered).
C17_NoDoubleStart ==
  [][(lastCall' = "start" /\ lastOp' # "end")
        => capState \notin {"running", "stopping"}]_vars

\* C18: two toggle calls in a row, with no notification between them, leave
\* the session state as it was before the first, also when the second call
\* is made before the component has rendered the first.
C18_ToggleInvolution ==
  toggles = 2 => isListening = toggleFrom

====
